---- MODULE Spec2Model ----
(***************************************************************************)
(* Model of the cancellable batch pipeline of main.py: process_images,     *)
(* the progress window it drives (create_progress_window, update_progress, *)
(* close_progress_window, the cancel_processing handler), detect_and_crop  *)
(* and the __main__ block that reports the run to the user.                *)
(*                                                                         *)
(* PROGRESS_CANCELLED is a module global set by the handler                *)
(* cancel_processing, which belongs to another control flow (the Cancel    *)
(* button, the window's close button).  Tk dispatches it inside update()   *)
(* (lines 239 and 267); the model lets it run at every point of the run at *)
(* which the progress window exists, which includes those two.             *)
(* Loop indices are 0-based as in the source; image_paths[i + 1] is the    *)
(* element the source calls image_paths[i].                                *)
(***************************************************************************)
EXTENDS Integers, Sequences, FiniteSets, TLC

\* ------------------------------------------------------------------ bounds
\* Largest number of files in the selected folder.
MaxItems == 3
\* Width and height of the decoded source images, in pixels.
ImgW == 4
ImgH == 3

\* -------------------------------------------------------------- exceptions
\* Python's class hierarchy for the exception classes the program meets.
IsSubclass(e, c) ==
    \/ e = c
    \/ c = "OSError" /\ e \in {"FileNotFoundError", "PermissionError", "UnidentifiedImageError"}
    \/ c = "Exception"

\* Mutant: the handler for OSError / UnidentifiedImageError is missing.
CaughtWithoutOSError(e) ==
    \E c \in {"FileNotFoundError", "PermissionError", "ValueError"} : IsSubclass(e, c)

\* The except clauses of the per-item try statement.
Caught(e) ==
    \/ \E c \in {"FileNotFoundError", "PermissionError"} : IsSubclass(e, c)
    \/ \E c \in {"OSError", "UnidentifiedImageError"} : IsSubclass(e, c)
    \/ \E c \in {"ValueError"} : IsSubclass(e, c)

\* What Image.open(img_path) can do: succeed, or raise.
OpenOutcomes == {"ok", "FileNotFoundError", "UnidentifiedImageError"}
\* What cropped_img.save(output_path) can do: succeed, or raise.
SaveOutcomes == {"ok", "OSError", "PermissionError"}
\* What MODEL.predict can raise when the Detector fails.
PredictFailures == {"RuntimeError"}

\* ---------------------------------------------------------------- detector
\* A box is <<x_min, y_min, x_max, y_max>>.
InBox     == <<1, 1, ImgW - 1, ImgH - 1>>
OtherBox  == <<0, 0, ImgW - 2, ImgH - 1>>
WideBox   == <<1, 1, ImgW + 2, ImgH>>
NegBox    == <<0 - 1, 0, ImgW - 2, ImgH - 1>>
InvBox    == <<ImgW - 1, ImgH - 1, 1, 1>>
FlatBox   == <<1, 1, 1, ImgH>>

\* result.boxes of one inference: None, or an object whose xyxy is a list.
\* INF_PARAMETERS asks for at most one box (max_det); lists of two boxes stand
\* for a Detector that returns more, and the boxes are whatever it returns:
\* inside the image, past its edges, inverted or of zero width.
DetectorResults ==
    { [none |-> TRUE, xyxy |-> <<>>] } \cup
    { [none |-> FALSE, xyxy |-> s] :
        s \in { <<>>, <<InBox>>, <<InBox, OtherBox>>, <<InBox, WideBox>>, <<OtherBox, InBox>>,
                <<WideBox>>, <<NegBox>>, <<InvBox>>, <<FlatBox>> } }

NoCrop == [kind |-> "NoCrop", box |-> <<>>]

\* Mutant: the last box is used instead of the first.
detect_and_crop_last(boxes) ==
    IF ~boxes.none /\ Len(boxes.xyxy) > 0
    THEN [kind |-> "Crop", box |-> boxes.xyxy[Len(boxes.xyxy)]]
    ELSE NoCrop

\* The crop detect_and_crop applies for the boxes the Detector returned:
\* the first box as it is, or the image itself when there is none.
detect_and_crop(boxes) ==
    IF ~boxes.none /\ Len(boxes.xyxy) > 0
    THEN [kind |-> "Crop", box |-> boxes.xyxy[1]]
    ELSE NoCrop

\* Image.crop raises ValueError for a box whose right/lower edge lies before
\* its left/upper edge; any other box is cropped as given.
CropRaises(decision) ==
    /\ decision.kind = "Crop"
    /\ \/ decision.box[3] < decision.box[1]
       \/ decision.box[4] < decision.box[2]

\* ------------------------------------------------------------------- state
VARIABLES
    caller,             \* "__main__" or "call": who runs process_images
    image_paths,        \* the ordered list of files (EXAMPLES), by file id
    pc,                 \* position of the main flow
    i,                  \* loop index of process_images (0-based)
    processed_count,    \* local of process_images
    PROGRESS_CANCELLED, \* module global
    PROGRESS_WINDOW,    \* module global: "None" or "Tk"
    PROGRESS_BAR,       \* module global: the bar's maximum and value
    outcome,            \* per item: "pending", "ok" or the exception raised
    output_dir,         \* the files in the output directory, by source file id
    partial,            \* the files in it that are opened for writing, not yet written
    last_crop,          \* the latest detect_and_crop call: boxes, crop, saved or not
    callbacks,          \* the calls made to the progress window, in order
    result,             \* return value of process_images
    raised,             \* exception that left process_images, or "none"
    report,             \* dialog shown by __main__
    cancel_point        \* where the main flow was when the flag was first set

vars == <<caller, image_paths, pc, i, processed_count, PROGRESS_CANCELLED,
          PROGRESS_WINDOW, PROGRESS_BAR, outcome, output_dir, partial, last_crop, callbacks,
          result, raised, report, cancel_point>>

\* File ids are listed in descending order so that an id differs from its index.
FileList(n) == [k \in 1..n |-> MaxItems + 1 - k]

NoDetection == [src |-> 0, none |-> FALSE, xyxy |-> <<>>, crop |-> NoCrop, saved |-> FALSE]
NeverCancelled == [set |-> FALSE, done |-> 0, inflight |-> FALSE, at |-> ""]
NoResult == [kind |-> "None", processed |-> 0, total |-> 0]
NoReport == [kind |-> "none", title |-> "", count |-> 0]

Init ==
    /\ caller \in {"__main__", "call"}
    /\ image_paths \in {FileList(n) : n \in 0..MaxItems}
    /\ pc = IF caller = "__main__" THEN "main" ELSE "process_images"
    /\ i = 0
    /\ processed_count = 0
    /\ PROGRESS_CANCELLED = FALSE
    /\ PROGRESS_WINDOW = "None"
    /\ PROGRESS_BAR = [maximum |-> 0, value |-> 0]
    /\ outcome = [k \in 1..Len(image_paths) |-> "pending"]
    /\ output_dir = {}
    /\ partial = {}
    /\ last_crop = NoDetection
    /\ callbacks = <<>>
    /\ result = NoResult
    /\ raised = "none"
    /\ report = NoReport
    /\ cancel_point = NeverCancelled

\* ------------------------------------------------------------ process_images
N == Len(image_paths)

\* Mutant: the empty list is not recognised.
EmptyNever(paths) == FALSE

\* "not image_paths": the list is empty.
Empty(paths) == Len(paths) = 0

\* Mutant: the items are announced from the end of the list.
OnItemReversed(idx) == [cb |-> "on_item", arg |-> idx, name |-> image_paths[N - idx]]

\* The entry of the on_item log for the item at 0-based index idx.
OnItem(idx) == [cb |-> "on_item", arg |-> idx, name |-> image_paths[idx + 1]]

\* Mutant: processed_count counts only the images that were cropped.
CountCroppedOnly(count, e, decision) ==
    IF e = "none" /\ decision.kind = "Crop" THEN count + 1 ELSE count

\* processed_count after an item whose try block ended with exception e
\* ("none": it ran to the end, line 321).
CountAfter(count, e, decision) ==
    IF e = "none" THEN count + 1 ELSE count

\* The exception the try block of one item ends with, "none" if it has none:
\* Image.open, then MODEL.predict, then image.crop, then save (s = "ok" for
\* the part of the block that precedes the save).
ItemException(o, pf, d, s) ==
    IF o # "ok" THEN o
    ELSE IF pf # "ok" THEN pf
    ELSE IF CropRaises(detect_and_crop(d)) THEN "ValueError"
    ELSE IF s # "ok" THEN s
    ELSE "none"

\* __main__: EXAMPLES is non-empty, process_images is called; otherwise the
\* "No Images Found" warning is shown.
Main ==
    /\ pc = "main"
    /\ IF ~Empty(image_paths)
       THEN /\ pc' = "process_images"
            /\ UNCHANGED report
       ELSE /\ report' = [kind |-> "warning", title |-> "No Images Found", count |-> 0]
            /\ pc' = "exit"
    /\ UNCHANGED <<caller, image_paths, i, processed_count, PROGRESS_CANCELLED,
                   PROGRESS_WINDOW, PROGRESS_BAR, outcome, output_dir, partial, last_crop,
                   callbacks, result, raised, cancel_point>>

\* process_images up to the update() call inside create_progress_window.
process_images ==
    /\ pc = "process_images"
    /\ IF Empty(image_paths)
       THEN /\ result' = [kind |-> "No images processed", processed |-> 0, total |-> 0]
            /\ pc' = "returned"
            /\ UNCHANGED <<PROGRESS_CANCELLED, PROGRESS_WINDOW, PROGRESS_BAR, callbacks>>
       ELSE /\ PROGRESS_CANCELLED' = FALSE
            /\ PROGRESS_WINDOW' = "Tk"
            /\ PROGRESS_BAR' = [maximum |-> N, value |-> 0]
            /\ callbacks' = Append(callbacks, [cb |-> "on_start", arg |-> N, name |-> 0])
            /\ pc' = "create_update"
            /\ UNCHANGED result
    /\ UNCHANGED <<caller, image_paths, i, processed_count, outcome, output_dir, partial, last_crop,
                   raised, report, cancel_point>>

\* The positions at which item i has passed its cancellation check.
InFlight == {"update_progress", "progress_update", "try", "save"}

\* The Cancel button / WM_DELETE_WINDOW handler.
cancel_processing ==
    /\ pc \in {"create_update", "loop"} \cup InFlight
    /\ PROGRESS_WINDOW = "Tk"
    /\ PROGRESS_CANCELLED' = TRUE
    /\ cancel_point' = IF cancel_point.set THEN cancel_point
                       ELSE [set |-> TRUE, done |-> i, inflight |-> pc \in InFlight, at |-> pc]
    /\ UNCHANGED <<caller, image_paths, pc, i, processed_count, PROGRESS_WINDOW,
                   PROGRESS_BAR, outcome, output_dir, partial, last_crop, callbacks, result, raised,
                   report>>

\* create_progress_window returns; processed_count = 0 and the loop starts.
create_progress_window ==
    /\ pc = "create_update"
    /\ processed_count' = 0
    /\ i' = 0
    /\ pc' = "loop"
    /\ UNCHANGED <<caller, image_paths, PROGRESS_CANCELLED, PROGRESS_WINDOW, PROGRESS_BAR,
                   outcome, output_dir, partial, last_crop, callbacks, result, raised, report,
                   cancel_point>>

\* close_progress_window, as called by process_images before it returns.
Closed(kind) ==
    /\ PROGRESS_WINDOW' = "None"
    /\ callbacks' = Append(callbacks, [cb |-> "on_done", arg |-> 0, name |-> 0])
    /\ result' = [kind |-> kind, processed |-> processed_count, total |-> N]
    /\ pc' = "returned"

\* Mutant: the check reads a flag that is never set.
CancelNeverSeen(flag) == FALSE

\* "if PROGRESS_CANCELLED": the check at the head of an iteration.
CancelSeen(flag) == flag

\* Mutant: the flag is also read when the loop has run out of items.
loop_checks_at_end ==
    /\ pc = "loop"
    /\ IF CancelSeen(PROGRESS_CANCELLED)
       THEN Closed("Processing cancelled")
       ELSE IF i < N
            THEN /\ pc' = "update_progress"
                 /\ UNCHANGED <<PROGRESS_WINDOW, callbacks, result>>
            ELSE Closed("Processing complete")
    /\ UNCHANGED <<caller, image_paths, i, processed_count, PROGRESS_CANCELLED,
                   PROGRESS_BAR, outcome, output_dir, partial, last_crop, raised, report,
                   cancel_point>>

\* The head of one loop iteration: the cancellation check, or the end of the loop.
loop ==
    /\ pc = "loop"
    /\ IF i < N
       THEN IF CancelSeen(PROGRESS_CANCELLED)
            THEN Closed("Processing cancelled")
            ELSE /\ pc' = "update_progress"
                 /\ UNCHANGED <<PROGRESS_WINDOW, callbacks, result>>
       ELSE Closed("Processing complete")
    /\ UNCHANGED <<caller, image_paths, i, processed_count, PROGRESS_CANCELLED,
                   PROGRESS_BAR, outcome, output_dir, partial, last_crop, raised, report, cancel_point>>

\* update_progress(i, name) up to its update() call.  Its Tk calls either work
\* or raise TclError; it is called outside the try statement, so the error
\* leaves process_images.
update_progress ==
    /\ pc = "update_progress"
    /\ \E fails \in BOOLEAN :
        IF fails
        THEN /\ raised' = "TclError"
             /\ pc' = "raised"
             /\ UNCHANGED <<PROGRESS_BAR, callbacks>>
        ELSE /\ IF PROGRESS_WINDOW = "None"
                THEN UNCHANGED <<PROGRESS_BAR, callbacks>>
                ELSE /\ PROGRESS_BAR' = [PROGRESS_BAR EXCEPT !.value = i]
                     /\ callbacks' = Append(callbacks, OnItem(i))
             /\ pc' = "progress_update"
             /\ UNCHANGED raised
    /\ UNCHANGED <<caller, image_paths, i, processed_count, PROGRESS_CANCELLED,
                   PROGRESS_WINDOW, outcome, output_dir, partial, last_crop, result, report,
                   cancel_point>>

\* update_progress returns and the try block begins.
update_progress_return ==
    /\ pc = "progress_update"
    /\ pc' = "try"
    /\ UNCHANGED <<caller, image_paths, i, processed_count, PROGRESS_CANCELLED,
                   PROGRESS_WINDOW, PROGRESS_BAR, outcome, output_dir, partial, last_crop, callbacks,
                   result, raised, report, cancel_point>>

\* The try statement for item i up to the start of save: open, detect and
\* crop, and the destination file opened for writing; the except clauses; an
\* exception none of them names leaves process_images.
process_item ==
    /\ pc = "try"
    /\ \E o \in OpenOutcomes, pf \in {"ok"} \cup PredictFailures, d \in DetectorResults :
        LET e == ItemException(o, pf, d, "ok")
            decision == detect_and_crop(d)
            predicted == o = "ok" /\ pf = "ok"
        IN  /\ last_crop' = IF predicted
                            THEN [src |-> image_paths[i + 1], none |-> d.none, xyxy |-> d.xyxy,
                                  crop |-> decision, saved |-> FALSE]
                            ELSE last_crop
            /\ UNCHANGED processed_count
            /\ IF e = "none"
               THEN /\ partial' = partial \cup {image_paths[i + 1]}
                    /\ pc' = "save"
                    /\ UNCHANGED <<outcome, i, raised>>
               ELSE /\ outcome' = [outcome EXCEPT ![i + 1] = e]
                    /\ UNCHANGED partial
                    /\ IF Caught(e)
                       THEN /\ i' = i + 1
                            /\ pc' = "loop"
                            /\ UNCHANGED raised
                       ELSE /\ raised' = e
                            /\ pc' = "raised"
                            /\ UNCHANGED i
    /\ UNCHANGED <<caller, image_paths, PROGRESS_CANCELLED, PROGRESS_WINDOW, PROGRESS_BAR,
                   output_dir, callbacks, result, report, cancel_point>>

\* Mutant: the write gives up when the flag is set and leaves what it wrote.
save_interrupted ==
    /\ pc = "save"
    /\ IF PROGRESS_CANCELLED
       THEN /\ outcome' = [outcome EXCEPT ![i + 1] = "OSError"]
            /\ i' = i + 1
            /\ UNCHANGED <<partial, output_dir, last_crop, processed_count>>
       ELSE /\ outcome' = [outcome EXCEPT ![i + 1] = "ok"]
            /\ partial' = partial \ {image_paths[i + 1]}
            /\ output_dir' = output_dir \cup {image_paths[i + 1]}
            /\ last_crop' = [last_crop EXCEPT !.saved = TRUE]
            /\ processed_count' = processed_count + 1
            /\ i' = i + 1
    /\ pc' = "loop"
    /\ UNCHANGED <<caller, image_paths, PROGRESS_CANCELLED, PROGRESS_WINDOW, PROGRESS_BAR,
                   callbacks, result, raised, report, cancel_point>>

\* cropped_img.save(output_path) runs to its end, whatever the flag: the file
\* is written, or save raises and the file it had created is removed; then the
\* count (line 321) or the except clauses.
save ==
    /\ pc = "save"
    /\ \E s \in SaveOutcomes :
        LET e == IF s = "ok" THEN "none" ELSE s
        IN  /\ outcome' = [outcome EXCEPT ![i + 1] = IF e = "none" THEN "ok" ELSE e]
            /\ partial' = partial \ {image_paths[i + 1]}
            /\ last_crop' = [last_crop EXCEPT !.saved = e = "none"]
            /\ processed_count' = CountAfter(processed_count, e, last_crop.crop)
            /\ IF e = "none"
               THEN /\ output_dir' = output_dir \cup {image_paths[i + 1]}
                    /\ i' = i + 1
                    /\ pc' = "loop"
                    /\ UNCHANGED raised
               ELSE /\ UNCHANGED output_dir
                    /\ IF Caught(e)
                       THEN /\ i' = i + 1
                            /\ pc' = "loop"
                            /\ UNCHANGED raised
                       ELSE /\ raised' = e
                            /\ pc' = "raised"
                            /\ UNCHANGED i
    /\ UNCHANGED <<caller, image_paths, PROGRESS_CANCELLED, PROGRESS_WINDOW, PROGRESS_BAR,
                   callbacks, result, report, cancel_point>>

\* __main__ after process_images returned: the "Processing Complete" dialog.
MainReport ==
    /\ pc = "returned"
    /\ caller = "__main__"
    /\ report' = [kind |-> "info", title |-> "Processing Complete", count |-> N]
    /\ pc' = "exit"
    /\ UNCHANGED <<caller, image_paths, i, processed_count, PROGRESS_CANCELLED,
                   PROGRESS_WINDOW, PROGRESS_BAR, outcome, output_dir, partial, last_crop, callbacks,
                   result, raised, cancel_point>>

Next ==
    \/ Main
    \/ process_images
    \/ cancel_processing
    \/ create_progress_window
    \/ loop
    \/ update_progress
    \/ update_progress_return
    \/ process_item
    \/ save
    \/ MainReport

Spec == Init /\ [][Next]_vars

\* ------------------------------------------------------------------ claims
\* process_images has returned (the caller may have gone on to its report).
Returned == pc \in {"returned", "exit"} /\ result.kind # "None"
Cancelled == result.kind = "Processing cancelled"
Completed == result.kind = "Processing complete"
Failed(k) == outcome[k] \notin {"ok", "pending"}

\* C1: over a non-empty list, processed_count never exceeds the number of
\* items, and when process_images returns processed_count equals that number
\* unless the run was cancelled or some item failed.
C1_CountBounded ==
    N > 0 =>
        /\ processed_count <= N
        /\ Returned =>
              \/ processed_count = N /\ result.processed = N
              \/ Cancelled
              \/ \E k \in 1..N : Failed(k)

\* A run of two or more items, with a cancellation that came too late to be
\* seen, returned with every item counted.
C1_Witness ==
    /\ Returned /\ Completed
    /\ N >= 2
    /\ PROGRESS_CANCELLED
    /\ processed_count = N

\* C2: with no cancellation, one undecodable file among N files that are
\* otherwise processed without error does not stop the run: every other item
\* is attempted, the run completes, and processed_count = N - 1.
C2_OneCorruptFile ==
    \A j \in 1..N :
        ( /\ pc \in {"returned", "exit", "raised"}
          /\ ~PROGRESS_CANCELLED
          /\ raised # "TclError"
          /\ outcome[j] = "UnidentifiedImageError"
          /\ \A k \in 1..N : k # j => ~Failed(k) )
        => /\ Returned /\ Completed
           /\ result.processed = N - 1
           /\ \A k \in 1..N : k # j => outcome[k] = "ok"
           /\ Cardinality(output_dir) = N - 1

\* The corrupt file was the first of several and the run completed.
C2_Witness ==
    /\ Returned /\ Completed
    /\ N >= 2
    /\ ~PROGRESS_CANCELLED
    /\ outcome[1] = "UnidentifiedImageError"
    /\ \A k \in 2..N : outcome[k] = "ok"
    /\ result.processed = N - 1

\* C3: when the flag is first set between items, after k items were done and
\* before item k + 1 passed its check (k = 0: before any item), and the first k
\* items succeeded, then no later item is started, exactly the k output files
\* exist, and the run returns as cancelled with processed_count = k.
C3_CancelBetweenItems ==
    ( /\ cancel_point.set /\ ~cancel_point.inflight
      /\ cancel_point.done < N
      /\ \A k \in 1..cancel_point.done : outcome[k] = "ok" )
    => /\ pc \in {"create_update", "loop", "returned", "exit"}
       /\ \A k \in 1..N : k > cancel_point.done =>
              outcome[k] = "pending" /\ image_paths[k] \notin output_dir \cup partial
       /\ Cardinality(output_dir) = cancel_point.done
       /\ Returned => /\ Cancelled
                      /\ result.processed = cancel_point.done

\* Cancelled after the first item and before the second: one file, one counted.
C3_Witness ==
    /\ Returned /\ Cancelled
    /\ cancel_point.set /\ ~cancel_point.inflight
    /\ cancel_point.done = 1
    /\ result.processed = 1
    /\ output_dir = {image_paths[1]}

\* C4: every failure of an item (missing file, undecodable file, Detector
\* failure, unwritable destination, malformed box) is caught inside the loop:
\* no exception raised by an item's try block leaves process_images.
C4_ItemFailuresCaught ==
    \A k \in 1..N : Failed(k) => pc # "raised" /\ raised = "none"

\* C5: called with an empty list, process_images returns at once with the
\* "No images processed" result: nothing counted, not cancelled, no progress
\* window, no callback, no item attempted, no file written.
C5_EmptyList ==
    N = 0 =>
        /\ pc \in {"main", "process_images", "returned", "exit"}
        /\ callbacks = <<>>
        /\ PROGRESS_WINDOW = "None"
        /\ ~PROGRESS_CANCELLED
        /\ output_dir = {}
        /\ processed_count = 0
        /\ pc = "returned" =>
              result = [kind |-> "No images processed", processed |-> 0, total |-> 0]

\* process_images was called with the empty list and has returned.
C5_Witness ==
    /\ N = 0
    /\ caller = "call"
    /\ pc = "returned"
    /\ result.kind = "No images processed"

\* C6: the progress window is called in this order: on_start(total) once,
\* before any item is attempted; on_item(i, name) for i = 0, 1, 2, ... with
\* the names in list order, each before its item is attempted; on_done once,
\* last, when process_images returns, the result being "cancelled" only if
\* the flag stopped the loop before the last item and "complete" exactly when
\* all items were announced.
C6_CallbackOrder ==
    N > 0 =>
        /\ callbacks = <<>> => \A k \in 1..N : outcome[k] = "pending"
        /\ \A k \in 1..Len(callbacks) :
              /\ callbacks[k].cb = "on_start" <=> k = 1
              /\ k = 1 => callbacks[k].arg = N
              /\ callbacks[k].cb = "on_item" =>
                    /\ k - 1 <= N
                    /\ callbacks[k].arg = k - 2
                    /\ callbacks[k].name = image_paths[k - 1]
              /\ callbacks[k].cb = "on_done" => k = Len(callbacks) /\ k >= 2 /\ Returned
        /\ \A k \in 1..N : outcome[k] # "pending" =>
              Len(callbacks) >= k + 1 /\ callbacks[k + 1].cb = "on_item"
        /\ Returned =>
              /\ callbacks[Len(callbacks)].cb = "on_done"
              /\ Cancelled \/ Completed
              /\ Cancelled => Len(callbacks) - 2 < N /\ PROGRESS_CANCELLED
              /\ Completed <=> Len(callbacks) - 2 = N

\* A run of three or more items cancelled after two of them were announced.
C6_Witness ==
    /\ Returned /\ Cancelled
    /\ N >= 3
    /\ Len(callbacks) = 4
    /\ callbacks[3] = [cb |-> "on_item", arg |-> 1, name |-> image_paths[2]]

\* C7: the crop depends on the first box alone: with no boxes the image is
\* kept as it is, otherwise the crop is the first box, whatever follows it.
C7_FirstBoxOnly ==
    last_crop.src # 0 =>
        /\ (last_crop.none \/ Len(last_crop.xyxy) = 0) => last_crop.crop = NoCrop
        /\ (~last_crop.none /\ Len(last_crop.xyxy) > 0) =>
              last_crop.crop = [kind |-> "Crop", box |-> last_crop.xyxy[1]]

\* Two different boxes were returned and the saved crop is the first one.
C7_Witness ==
    /\ last_crop.saved
    /\ Len(last_crop.xyxy) = 2
    /\ last_crop.xyxy[1] # last_crop.xyxy[2]
    /\ last_crop.crop.box = last_crop.xyxy[1]

\* C8: every crop that is applied and saved lies inside the image and is not
\* empty: 0 <= x_min < x_max <= width and 0 <= y_min < y_max <= height.
C8_CropClamped ==
    (last_crop.saved /\ last_crop.crop.kind = "Crop") =>
        LET b == last_crop.crop.box
        IN  /\ 0 <= b[1] /\ b[1] < b[3] /\ b[3] <= ImgW
            /\ 0 <= b[2] /\ b[2] < b[4] /\ b[4] <= ImgH

\* C9: a progress callback that raises does not end the run.
C9_SinkFailureIsolated ==
    raised = "TclError" => pc # "raised"

\* C10: the dialog shown at the end matches the run: a completed run is
\* reported as complete with its processed count, a cancelled run as
\* cancelled with its partial count, an empty folder as "No Images Found".
C10_ReportMatchesRun ==
    pc = "exit" =>
        \/ /\ N = 0
           /\ report.title = "No Images Found"
        \/ /\ Completed
           /\ report.title = "Processing Complete"
           /\ report.count = result.processed
        \/ /\ Cancelled
           /\ report.title # "Processing Complete"
           /\ report.count = result.processed

\* The number of the items 1..n that ran to the end of their try block.
Succeeded(n) == Cardinality({k \in 1..n : outcome[k] = "ok"})

\* C11: when the flag is first set while an item is in flight (after its
\* check, up to the end of its save), that item still runs to its own success
\* or failure before process_images returns, its destination file ends up
\* written or absent and is unfinished only while its save is running, and no
\* later item is started: the run returns as cancelled at the next check.
C11_CancelInFlight ==
    (cancel_point.set /\ cancel_point.inflight) =>
        LET j == cancel_point.done + 1
        IN  /\ \A k \in 1..N : k > j =>
                  /\ outcome[k] = "pending"
                  /\ image_paths[k] \notin output_dir \cup partial
                  /\ \A c \in 1..Len(callbacks) : callbacks[c].name # image_paths[k]
            /\ partial \subseteq {image_paths[j]}
            /\ partial # {} <=> pc = "save"
            /\ pc # "save" => (image_paths[j] \in output_dir <=> outcome[j] = "ok")
            /\ Returned =>
                  /\ outcome[j] # "pending"
                  /\ result.processed = Succeeded(j)
                  /\ j < N => Cancelled
                  /\ j = N => Completed

\* The flag was set while the first item's file was being written; the file
\* was finished and counted, and the run was cancelled before the second item.
C11_Witness ==
    /\ Returned /\ Cancelled
    /\ cancel_point.set /\ cancel_point.at = "save"
    /\ cancel_point.done = 0
    /\ outcome[1] = "ok"
    /\ output_dir = {image_paths[1]}
    /\ partial = {}
    /\ result.processed = 1

\* C12: the flag is read only in the check before each item.  When it is first
\* set after the check of the last item (while that item is in flight, or after
\* it), all N items are attempted and process_images returns the "complete"
\* result although the flag is set; and it returns the "cancelled" result only
\* when some item was left unattempted.
C12_LateCancelIgnored ==
    (N > 0 /\ Returned) =>
        /\ ( /\ cancel_point.set
             /\ \/ cancel_point.inflight /\ cancel_point.done = N - 1
                \/ cancel_point.done = N )
           => /\ Completed
              /\ PROGRESS_CANCELLED
              /\ \A k \in 1..N : outcome[k] # "pending"
              /\ result.processed = Succeeded(N)
        /\ Cancelled => \E k \in 1..N : outcome[k] = "pending"

\* The flag was set after the last of several items had been processed, and
\* the run returned as complete with the flag set.
C12_Witness ==
    /\ Returned /\ Completed
    /\ N >= 2
    /\ PROGRESS_CANCELLED
    /\ cancel_point.done = N /\ cancel_point.at = "loop"
    /\ \A k \in 1..N : outcome[k] # "pending"

====
